---- MODULE Spec2Model ----
(***************************************************************************)
(* Model of scripts/generate_tts_gemini.py: the batch driver main(), the   *)
(* progress journal (load_progress / save_progress) and the remote call    *)
(* call_gemini_tts_api with its Flash -> Pro fallback.                      *)
(*                                                                         *)
(* One behaviour is a sequence of runs of the script.  A run is main():    *)
(* StartRun is the code up to the loops, the Skip*/DryRunItem/BeginCall    *)
(* actions are one iteration of the nested loops each, PostRequest is one  *)
(* requests.post with the handling of its response, ReturnFromCall is the  *)
(* rest of the iteration once call_gemini_tts_api has returned, FinishRun  *)
(* is the summary.                                                         *)
(***************************************************************************)
EXTENDS Naturals, Sequences, FiniteSets, TLC

(* ---------------------------------------------------------------- bounds *)
\* how many entries of ALL_WORLDVIEWS / MVP_EXERCISES / GRADES the model uses
NumWorldviews == 3
NumExercises == 2
NumGrades == 2
\* how many times the script is run in one behaviour
MaxRuns == 2

(* ------------------------------------------------------------- constants *)
ALL_WORLDVIEWS == <<"fantasy", "sports", "idol", "sf", "zombie", "spy">>
MVP_EXERCISES == <<"squat", "lunge", "bicep_curl", "arm_raise", "high_knees", "plank_hold">>
NEW_EXERCISES == <<"lunge", "bicep_curl", "arm_raise">>
GRADES == <<"perfect", "good", "normal">>

max_retries == 2

None == "None"

\* the first n entries of a declared list
Prefix(list, n) == SubSeq(list, 1, IF n < Len(list) THEN n ELSE Len(list))

Range(s) == {s[i] : i \in 1..Len(s)}

\* the corpus file all_stories.json, worldview -> exercise -> grade -> text:
\* "sports" is absent, idol has no "squat", fantasy/lunge has an empty
\* "perfect" text, idol/lunge has no "good" entry, and only fantasy/squat has a
\* "normal" text
stories ==
    "fantasy" :> ( "squat" :> ("perfect" :> "t1" @@ "good" :> "t2" @@ "normal" :> "t3")
                @@ "lunge" :> ("perfect" :> "" @@ "good" :> "t4") )
 @@ "idol"    :> ( "lunge" :> ("perfect" :> "t5") )

(* ----------------------------------------------------------------- state *)
VARIABLES
    runs,           \* number of runs of the script started so far
    pc,             \* "idle" | "loop" | "post" | "returned" | "done" | "fatal"
    args,           \* the parsed command line of the current (or last) run
    progress,       \* main's in-memory journal
    disk,           \* the content of PROGRESS_FILE
    wi, ei, gi,     \* positions of the three nested for loops
    success_count, fail_count, skip_count,
    use_fallback,   \* call_gemini_tts_api's parameter of the running invocation
    retry,          \* the loop variable of `for retry in range(max_retries)`
    response,       \* the outcome class of the last requests.post of the call
    audio_data,     \* what call_gemini_tts_api returned
    fallbackCalls,  \* invocations with use_fallback=True made for this item
    posts,          \* requests sent for this item, per tier
    sleeps,         \* the waits time.sleep(wait_time) made for this item
    last,           \* the last attempt of this run and its outcome
    idem,           \* this run repeats a failure-free normal run on its journal
    todo,           \* keys eligible when the run started and not attempted yet
    stories_file,   \* whether STORIES_FILE existed when the run started
    seen,           \* keys this run attempted with success, attempted without,
                    \* and passed over as completed
    summary,        \* the numbers the run printed at its end
    probe,          \* two work items and the keys and paths computed for them
    pg              \* the state of prompt_generator.py's generate_prompts

vars == <<runs, pc, args, progress, disk, wi, ei, gi, success_count, fail_count,
          skip_count, use_fallback, retry, response, audio_data, fallbackCalls,
          posts, sleeps, last, idem, todo, stories_file, seen, summary, probe, pg>>

callVars == <<use_fallback, retry, response, audio_data, fallbackCalls, posts, sleeps>>
loopVars == <<wi, ei, gi>>
countVars == <<success_count, fail_count, skip_count>>

(* --------------------------------------------------------------- journal *)
EmptyJournal == [completed |-> <<>>, failed |-> <<>>, skipped |-> <<>>]
\* no PROGRESS_FILE on disk / no journal in memory (no run has loaded one)
NoFile == [exists |-> FALSE]
NotLoaded == [loaded |-> FALSE]

\* Python's `x in list`
Contains(list, x) == \E i \in 1..Len(list) : list[i] = x

\* list.remove(x) got wrong: drops the head of the list, as list.pop(0) would
Remove_Head(list, x) == Tail(list)

\* Python's list.remove(x): drops the first occurrence
Remove(list, x) ==
    LET i == CHOOSE j \in 1..Len(list) :
                 list[j] = x /\ \A k \in 1..(j - 1) : list[k] # x
    IN  SubSeq(list, 1, i - 1) \o SubSeq(list, i + 1, Len(list))

load_progress(file) == IF file # NoFile THEN file ELSE EmptyJournal

save_progress(p) == p

\* a key that leaves the grade out
get_file_key_NoGrade(worldview, exercise, grade) == worldview \o "/" \o exercise
get_file_key(worldview, exercise, grade) == worldview \o "/" \o exercise \o "_" \o grade

\* the update without lines 429-430: a success leaves the key in failed
RecordOutcome_KeepFailed(p, file_key, success) ==
    IF success
    THEN [p EXCEPT
            !.completed = IF ~Contains(@, file_key) THEN Append(@, file_key) ELSE @]
    ELSE [p EXCEPT
            !.failed = IF ~Contains(@, file_key) THEN Append(@, file_key) ELSE @]

\* the update without lines 427-428: a success is not added to completed
RecordOutcome_NoCompleted(p, file_key, success) ==
    IF success
    THEN [p EXCEPT
            !.failed = IF Contains(@, file_key) THEN Remove(@, file_key) ELSE @]
    ELSE [p EXCEPT
            !.failed = IF ~Contains(@, file_key) THEN Append(@, file_key) ELSE @]

\* the update without lines 433-436: a failure is not added to failed
RecordOutcome_FailureUnrecorded(p, file_key, success) ==
    IF success
    THEN [p EXCEPT
            !.completed = IF ~Contains(@, file_key) THEN Append(@, file_key) ELSE @,
            !.failed = IF Contains(@, file_key) THEN Remove(@, file_key) ELSE @]
    ELSE p

\* the update without the test of line 435: a failure is always appended
RecordOutcome_AppendFailure(p, file_key, success) ==
    IF success
    THEN [p EXCEPT
            !.completed = IF ~Contains(@, file_key) THEN Append(@, file_key) ELSE @,
            !.failed = IF Contains(@, file_key) THEN Remove(@, file_key) ELSE @]
    ELSE [p EXCEPT !.failed = Append(@, file_key)]

\* the journal update of main after generate_tts returned `success`
RecordOutcome(p, file_key, success) ==
    IF success
    THEN [p EXCEPT
            !.completed = IF ~Contains(@, file_key) THEN Append(@, file_key) ELSE @,
            !.failed = IF Contains(@, file_key) THEN Remove(@, file_key) ELSE @]
    ELSE [p EXCEPT
            !.failed = IF ~Contains(@, file_key) THEN Append(@, file_key) ELSE @]

(* ------------------------------------------------------------- work set *)
GradeList == Prefix(GRADES, NumGrades)

worldviews(a) ==
    IF a.worldview # None THEN <<a.worldview>> ELSE Prefix(ALL_WORLDVIEWS, NumWorldviews)

exercises(a) ==
    IF a.exercise # None THEN <<a.exercise>>
    ELSE IF a.new_only
         THEN SelectSeq(NEW_EXERCISES,
                        LAMBDA e : e \in Range(Prefix(MVP_EXERCISES, NumExercises)))
         ELSE Prefix(MVP_EXERCISES, NumExercises)

\* the command lines of the model: every combination of the flags, with
\* --worldview absent or "fantasy" and --exercise absent or "lunge"; api_key
\* is whether --api-key or GEMINI_API_KEY gives a credential
ArgSpace ==
    [dry_run : BOOLEAN, retry_failed : BOOLEAN, reset : BOOLEAN, new_only : BOOLEAN,
     api_key : BOOLEAN,
     worldview : {None, ALL_WORLDVIEWS[1]},
     exercise : {None, MVP_EXERCISES[2]}]

NoArgs == [dry_run |-> FALSE, retry_failed |-> FALSE, reset |-> FALSE,
           new_only |-> FALSE, api_key |-> FALSE, worldview |-> None,
           exercise |-> None]

\* the loop variables of the iteration main is at
worldview == worldviews(args)[wi]
exercise == exercises(args)[ei]
grade == GradeList[gi]
file_key == get_file_key(worldview, exercise, grade)

\* stories[worldview][exercise].get(grade)
text ==
    IF grade \in DOMAIN stories[worldview][exercise]
    THEN stories[worldview][exercise][grade] ELSE None

\* the filter with --retry-failed testing completed instead of failed
Eligible_RetryNotCompleted(p, a, key) == ~Contains(p.completed, key)

\* the filter with a normal run passing over failed keys too
Eligible_NormalSkipsFailed(p, a, key) ==
    IF a.retry_failed THEN Contains(p.failed, key)
    ELSE ~Contains(p.completed, key) /\ ~Contains(p.failed, key)

\* no filter at all: every item goes on to its text
Eligible_NoFilter(p, a, key) == TRUE

\* the journal filter of lines 411-416: TRUE when the item goes on to its text
Eligible(p, a, key) ==
    IF a.retry_failed THEN Contains(p.failed, key) ELSE ~Contains(p.completed, key)

InLoop == pc = "loop" /\ wi <= Len(worldviews(args))
InWorldview == InLoop /\ worldview \in DOMAIN stories /\ ei <= Len(exercises(args))
AtItem == InWorldview /\ exercise \in DOMAIN stories[worldview]

\* `continue` / falling off the end of the body of each of the three loops
NextWorldview == wi' = wi + 1 /\ ei' = 1 /\ gi' = 1
NextExercise ==
    IF ei < Len(exercises(args))
    THEN wi' = wi /\ ei' = ei + 1 /\ gi' = 1
    ELSE NextWorldview
NextGrade ==
    IF gi < Len(GradeList)
    THEN wi' = wi /\ ei' = ei /\ gi' = gi + 1
    ELSE NextExercise

NoAttempt == [key |-> None, outcome |-> None]
NoPosts == [Flash |-> 0, Pro |-> 0]

NoneSeen == [ok |-> {}, bad |-> {}, passed |-> {}]
NoSummary == [printed |-> FALSE]

DriverInit ==
    /\ runs = 0
    /\ pc = "idle"
    /\ args = NoArgs
    /\ progress = NotLoaded
    /\ disk = NoFile
    /\ wi = 1 /\ ei = 1 /\ gi = 1
    /\ success_count = 0 /\ fail_count = 0 /\ skip_count = 0
    /\ use_fallback = FALSE
    /\ retry = 0
    /\ response = None
    /\ audio_data = None
    /\ fallbackCalls = 0
    /\ posts = NoPosts
    /\ sleeps = <<>>
    /\ last = NoAttempt
    /\ idem = FALSE
    /\ todo = {}
    /\ stories_file = TRUE
    /\ seen = NoneSeen
    /\ summary = NoSummary

\* the driver's specification holds the other two programs' state still
NoProbe == [a |-> <<>>, b |-> <<>>, keys |-> <<>>, paths |-> <<>>]
NoPrompts == [pc |-> "idle"]

Init == DriverInit /\ probe = NoProbe /\ pg = NoPrompts

(* ------------------------------------------------------------ main: start *)
\* the items of the corpus: the triples that have a non-empty text
Items ==
    {t \in Range(ALL_WORLDVIEWS) \X Range(MVP_EXERCISES) \X Range(GRADES) :
        /\ t[1] \in DOMAIN stories
        /\ t[2] \in DOMAIN stories[t[1]]
        /\ t[3] \in DOMAIN stories[t[1]][t[2]]
        /\ stories[t[1]][t[2]][t[3]] \notin {None, ""}}

\* item t is in the work set of the command line a and the journal filter of
\* its mode admits it on journal p
EligibleItem(t, a, p) ==
    /\ t[1] \in Range(worldviews(a))
    /\ t[2] \in Range(exercises(a))
    /\ t[3] \in Range(GradeList)
    /\ Eligible(p, a, get_file_key(t[1], t[2], t[3]))

SameWorkSet(a, b) == worldviews(a) = worldviews(b) /\ exercises(a) = exercises(b)

\* main with the --reset of lines 364-367 done before the checks of the
\* credential and of the corpus file
StartRun_ResetFirst ==
    /\ pc \in {"idle", "done", "fatal"}
    /\ runs < MaxRuns
    /\ \E a \in ArgSpace, stories_exists \in BOOLEAN :
        /\ runs' = runs + 1
        /\ args' = a
        /\ stories_file' = stories_exists
        /\ seen' = NoneSeen
        /\ summary' = NoSummary
        /\ UNCHANGED <<probe, pg>>
        /\ wi' = 1 /\ ei' = 1 /\ gi' = 1
        /\ success_count' = 0 /\ fail_count' = 0 /\ skip_count' = 0
        /\ last' = NoAttempt
        /\ idem' = ( /\ pc = "done"
                     /\ ~args.retry_failed
                     /\ fail_count = 0
                     /\ ~a.retry_failed
                     /\ ~a.reset
                     /\ SameWorkSet(args, a) )
        /\ UNCHANGED callVars
        /\ IF (~a.api_key /\ ~a.dry_run) \/ ~stories_exists
           THEN \* sys.exit(1)
                /\ pc' = "fatal"
                /\ progress' = NotLoaded
                /\ disk' = IF a.reset THEN save_progress(EmptyJournal) ELSE disk
                /\ todo' = {}
           ELSE /\ pc' = "loop"
                /\ IF a.reset
                   THEN /\ progress' = EmptyJournal
                        /\ disk' = save_progress(progress')
                   ELSE /\ progress' = load_progress(disk)
                        /\ disk' = disk
                /\ todo' = {get_file_key(t[1], t[2], t[3]) :
                               t \in {u \in Items : EligibleItem(u, a, progress')}}

\* main up to the loops (lines 354-396) for the command line a;
\* stories_exists is whether STORIES_FILE exists
StartRun ==
    /\ pc \in {"idle", "done", "fatal"}
    /\ runs < MaxRuns
    /\ \E a \in ArgSpace, stories_exists \in BOOLEAN :
        /\ runs' = runs + 1
        /\ args' = a
        /\ stories_file' = stories_exists
        /\ seen' = NoneSeen
        /\ summary' = NoSummary
        /\ UNCHANGED <<probe, pg>>
        /\ wi' = 1 /\ ei' = 1 /\ gi' = 1
        /\ success_count' = 0 /\ fail_count' = 0 /\ skip_count' = 0
        /\ last' = NoAttempt
        /\ idem' = ( /\ pc = "done"
                     /\ ~args.retry_failed
                     /\ fail_count = 0
                     /\ ~a.retry_failed
                     /\ ~a.reset
                     /\ SameWorkSet(args, a) )
        /\ UNCHANGED callVars
        /\ IF (~a.api_key /\ ~a.dry_run) \/ ~stories_exists
           THEN \* sys.exit(1)
                /\ pc' = "fatal"
                /\ progress' = NotLoaded
                /\ disk' = disk
                /\ todo' = {}
           ELSE /\ pc' = "loop"
                /\ IF a.reset
                   THEN /\ progress' = EmptyJournal
                        /\ disk' = save_progress(progress')
                   ELSE /\ progress' = load_progress(disk)
                        /\ disk' = disk
                /\ todo' = {get_file_key(t[1], t[2], t[3]) :
                               t \in {u \in Items : EligibleItem(u, a, progress')}}

(* ------------------------------------------------- main: the nested loops *)
\* line 399: worldview not in stories
SkipMissingWorldview ==
    /\ InLoop
    /\ worldview \notin DOMAIN stories
    /\ NextWorldview
    /\ UNCHANGED <<runs, pc, args, progress, disk, countVars, callVars, last, idem, todo, stories_file, seen, summary, probe, pg>>

\* line 404: exercise not in stories[worldview]
SkipMissingExercise ==
    /\ InWorldview
    /\ exercise \notin DOMAIN stories[worldview]
    /\ NextExercise
    /\ UNCHANGED <<runs, pc, args, progress, disk, countVars, callVars, last, idem, todo, stories_file, seen, summary, probe, pg>>

\* lines 411-413: --retry-failed and the key is not in failed
SkipNotFailed ==
    /\ AtItem
    /\ args.retry_failed
    /\ ~Eligible(progress, args, file_key)
    /\ NextGrade
    /\ UNCHANGED <<runs, pc, args, progress, disk, countVars, callVars, last, idem, todo, stories_file, seen, summary, probe, pg>>

\* lines 414-416 without `skip_count += 1`
SkipCompleted_Uncounted ==
    /\ AtItem
    /\ ~args.retry_failed
    /\ ~Eligible(progress, args, file_key)
    /\ seen' = [seen EXCEPT !.passed = @ \cup {file_key}]
    /\ NextGrade
    /\ UNCHANGED <<runs, pc, args, progress, disk, countVars,
                   callVars, last, idem, todo, stories_file, summary, probe, pg>>

\* lines 414-416: a normal run and the key is in completed
SkipCompleted ==
    /\ AtItem
    /\ ~args.retry_failed
    /\ ~Eligible(progress, args, file_key)
    /\ skip_count' = skip_count + 1
    /\ seen' = [seen EXCEPT !.passed = @ \cup {file_key}]
    /\ NextGrade
    /\ UNCHANGED <<runs, pc, args, progress, disk, success_count, fail_count,
                   callVars, last, idem, todo, stories_file, summary, probe, pg>>

\* lines 418-421 with the missing text counted and recorded as a failure
SkipNoText_RecordsFailure ==
    /\ AtItem
    /\ Eligible(progress, args, file_key)
    /\ text \in {None, ""}
    /\ fail_count' = fail_count + 1
    /\ progress' = RecordOutcome(progress, file_key, FALSE)
    /\ disk' = save_progress(progress')
    /\ NextGrade
    /\ UNCHANGED <<runs, pc, args, success_count, skip_count, callVars, last, idem, todo, stories_file, seen, summary, probe, pg>>

\* lines 418-421: no text for the grade
SkipNoText ==
    /\ AtItem
    /\ Eligible(progress, args, file_key)
    /\ text \in {None, ""}
    /\ NextGrade
    /\ UNCHANGED <<runs, pc, args, progress, disk, countVars, callVars, last, idem, todo, stories_file, seen, summary, probe, pg>>

\* lines 425-438 with save_progress inside the success branch
Complete_SaveOnSuccess(success, outcome) ==
    /\ success_count' = IF success THEN success_count + 1 ELSE success_count
    /\ fail_count' = IF success THEN fail_count ELSE fail_count + 1
    /\ skip_count' = skip_count
    /\ progress' = RecordOutcome(progress, file_key, success)
    /\ disk' = IF success THEN save_progress(progress') ELSE disk
    /\ last' = [key |-> file_key, outcome |-> outcome]
    /\ NextGrade
    /\ pc' = "loop"
    /\ seen' = [seen EXCEPT ![IF success THEN "ok" ELSE "bad"] = @ \cup {file_key}]
    /\ UNCHANGED <<runs, args, idem, stories_file, summary, probe, pg>>

\* lines 425-438 with the loops left after a failure: the run goes to its
\* summary
Complete_AbortOnFailure(success, outcome) ==
    /\ success_count' = IF success THEN success_count + 1 ELSE success_count
    /\ fail_count' = IF success THEN fail_count ELSE fail_count + 1
    /\ skip_count' = skip_count
    /\ progress' = RecordOutcome(progress, file_key, success)
    /\ disk' = save_progress(progress')
    /\ last' = [key |-> file_key, outcome |-> outcome]
    /\ NextGrade
    /\ pc' = IF success THEN "loop" ELSE "done"
    /\ seen' = [seen EXCEPT ![IF success THEN "ok" ELSE "bad"] = @ \cup {file_key}]
    /\ UNCHANGED <<runs, args, idem, stories_file, summary, probe, pg>>

\* lines 425-438 with a failed item tried again at once: the loops do not
\* move on after a failure
Complete_RepeatOnFailure(success, outcome) ==
    /\ success_count' = IF success THEN success_count + 1 ELSE success_count
    /\ fail_count' = IF success THEN fail_count ELSE fail_count + 1
    /\ skip_count' = skip_count
    /\ progress' = RecordOutcome(progress, file_key, success)
    /\ disk' = save_progress(progress')
    /\ last' = [key |-> file_key, outcome |-> outcome]
    /\ IF success THEN NextGrade ELSE UNCHANGED loopVars
    /\ pc' = "loop"
    /\ seen' = [seen EXCEPT ![IF success THEN "ok" ELSE "bad"] = @ \cup {file_key}]
    /\ UNCHANGED <<runs, args, idem, stories_file, summary, probe, pg>>

\* lines 425-438 after generate_tts returned: counts, journal update,
\* save_progress, and on to the next iteration
Complete(success, outcome) ==
    /\ success_count' = IF success THEN success_count + 1 ELSE success_count
    /\ fail_count' = IF success THEN fail_count ELSE fail_count + 1
    /\ skip_count' = skip_count
    /\ progress' = RecordOutcome(progress, file_key, success)
    /\ disk' = save_progress(progress')
    /\ last' = [key |-> file_key, outcome |-> outcome]
    /\ NextGrade
    /\ pc' = "loop"
    /\ seen' = [seen EXCEPT ![IF success THEN "ok" ELSE "bad"] = @ \cup {file_key}]
    /\ UNCHANGED <<runs, args, idem, stories_file, summary, probe, pg>>

\* line 423 with --dry-run: generate_tts returns True at line 329
DryRunItem ==
    /\ AtItem
    /\ Eligible(progress, args, file_key)
    /\ text \notin {None, ""}
    /\ args.dry_run
    /\ Complete(TRUE, "dry_run")
    /\ todo' = todo \ {file_key}
    /\ UNCHANGED callVars

\* generate_tts without the test of lines 327-329: the call is made in a
\* --dry-run run too
BeginCall_IgnoresDryRun ==
    /\ AtItem
    /\ Eligible(progress, args, file_key)
    /\ text \notin {None, ""}
    /\ pc' = "post"
    /\ use_fallback' = FALSE
    /\ retry' = 0
    /\ response' = None
    /\ audio_data' = None
    /\ fallbackCalls' = 0
    /\ posts' = NoPosts
    /\ sleeps' = <<>>
    /\ todo' = todo \ {file_key}
    /\ UNCHANGED <<runs, args, progress, disk, loopVars, countVars, last, idem,
                   stories_file, seen, summary, probe, pg>>

\* line 423 without --dry-run: generate_tts calls call_gemini_tts_api (line 331)
BeginCall ==
    /\ AtItem
    /\ Eligible(progress, args, file_key)
    /\ text \notin {None, ""}
    /\ ~args.dry_run
    /\ pc' = "post"
    /\ use_fallback' = FALSE
    /\ retry' = 0
    /\ response' = None
    /\ audio_data' = None
    /\ fallbackCalls' = 0
    /\ posts' = NoPosts
    /\ sleeps' = <<>>
    /\ todo' = todo \ {file_key}
    /\ UNCHANGED <<runs, args, progress, disk, loopVars, countVars, last, idem,
                   stories_file, seen, summary, probe, pg>>

\* the loops are over: the summary of lines 443-455
FinishRun ==
    /\ pc = "loop"
    /\ wi > Len(worldviews(args))
    /\ pc' = "done"
    /\ summary' = [success |-> success_count, fail |-> fail_count, skip |-> skip_count,
                   total |-> Len(progress.completed)]
    /\ UNCHANGED <<runs, args, progress, disk, loopVars, countVars, callVars, last, idem, todo, stories_file, seen, probe, pg>>

(* ----------------------------------------------------- call_gemini_tts_api *)
\* what one requests.post can come to: 200 with audio; status 429; status 403;
\* another non-200 status; 200 without audio data; 200 with a payload that
\* raises in json() / indexing / b64decode; requests.exceptions.Timeout; any
\* other exception
Responses == {"ok", "s429", "s403", "s500", "empty", "malformed", "timeout", "error"}

wait_time(rt) == 30 + (30 * rt)

\* the handling without the fallback of lines 247-249: a 403 ends the call
Handle_QuotaNoFallback(fb, rt, r) ==
    IF r = "s429"
    THEN IF ~fb THEN "fallback"
         ELSE IF rt + 1 < max_retries THEN "retry" ELSE "none"
    ELSE IF r = "ok" THEN "audio"
    ELSE IF ~fb /\ r # "s403" THEN "fallback" ELSE "none"

\* the handling with a 429 on the Flash tier retried on the Flash tier first
Handle_RetryOnFlash(fb, rt, r) ==
    IF r = "s429"
    THEN IF rt + 1 < max_retries THEN "retry"
         ELSE IF ~fb THEN "fallback" ELSE "none"
    ELSE IF r = "ok" THEN "audio"
    ELSE IF ~fb THEN "fallback" ELSE "none"

\* the handling with a timeout on the Pro tier retried like a 429
Handle_RetryTimeout(fb, rt, r) ==
    IF r = "s429" \/ (fb /\ r = "timeout")
    THEN IF ~fb THEN "fallback"
         ELSE IF rt + 1 < max_retries THEN "retry" ELSE "none"
    ELSE IF r = "ok" THEN "audio"
    ELSE IF ~fb THEN "fallback" ELSE "none"

\* what the invocation does with the response r of its request number rt:
\* "fallback" = return call_gemini_tts_api(..., use_fallback=True),
\* "retry" = sleep and continue the loop, "none" = return None,
\* "audio" = return audio_bytes
Handle(fb, rt, r) ==
    IF r = "s429"
    THEN IF ~fb THEN "fallback"
         ELSE IF rt + 1 < max_retries THEN "retry" ELSE "none"
    ELSE IF r = "ok" THEN "audio"
    ELSE IF ~fb THEN "fallback" ELSE "none"

\* one requests.post (line 230) and everything the invocation does with its
\* response, up to the next request or the return
PostRequest ==
    /\ pc = "post"
    /\ \E r \in Responses :
        LET h == Handle(use_fallback, retry, r) IN
        /\ response' = r
        /\ posts' = IF use_fallback THEN [posts EXCEPT !.Pro = @ + 1]
                                    ELSE [posts EXCEPT !.Flash = @ + 1]
        /\ sleeps' = IF r = "s429" /\ h # "fallback"
                     THEN Append(sleeps, wait_time(retry)) ELSE sleeps
        /\ use_fallback' = (use_fallback \/ h = "fallback")
        /\ fallbackCalls' = IF h = "fallback" THEN fallbackCalls + 1 ELSE fallbackCalls
        /\ retry' = IF h = "fallback" THEN 0 ELSE IF h = "retry" THEN retry + 1 ELSE retry
        /\ audio_data' = IF h = "audio" THEN "pcm" ELSE None
        /\ pc' = IF h \in {"fallback", "retry"} THEN "post" ELSE "returned"
    /\ UNCHANGED <<runs, args, progress, disk, loopVars, countVars, last, idem, todo, stories_file, seen, summary, probe, pg>>

\* generate_tts returning True at line 339 whatever save_audio_file returned
ReturnFromCall_IgnoresWrite ==
    /\ pc = "returned"
    /\ \E write_ok \in BOOLEAN :
        IF audio_data = None
        THEN Complete(FALSE, "no_result")
        ELSE IF write_ok THEN Complete(TRUE, "saved")
             ELSE Complete(TRUE, "write_failed")
    /\ use_fallback' = FALSE
    /\ retry' = 0
    /\ response' = None
    /\ audio_data' = None
    /\ fallbackCalls' = 0
    /\ posts' = NoPosts
    /\ sleeps' = <<>>
    /\ UNCHANGED todo

\* generate_tts after the call (lines 332-339): save_audio_file may fail
\* (write_ok); then main's lines 425-438
ReturnFromCall ==
    /\ pc = "returned"
    /\ \E write_ok \in BOOLEAN :
        IF audio_data = None
        THEN Complete(FALSE, "no_result")
        ELSE IF write_ok THEN Complete(TRUE, "saved")
             ELSE Complete(FALSE, "write_failed")
    /\ use_fallback' = FALSE
    /\ retry' = 0
    /\ response' = None
    /\ audio_data' = None
    /\ fallbackCalls' = 0
    /\ posts' = NoPosts
    /\ sleeps' = <<>>
    /\ UNCHANGED todo

Next ==
    \/ StartRun
    \/ SkipMissingWorldview
    \/ SkipMissingExercise
    \/ SkipNotFailed
    \/ SkipCompleted
    \/ SkipNoText
    \/ DryRunItem
    \/ BeginCall
    \/ PostRequest
    \/ ReturnFromCall
    \/ FinishRun

Spec == Init /\ [][Next]_vars

(* ================================================================ claims *)
\* the journal as a restart or the running process sees it
Journal == IF progress # NotLoaded THEN progress ELSE load_progress(disk)

Disjoint(j) == \A k \in Range(j.completed) : ~Contains(j.failed, k)

HasText == text \notin {None, ""}

\* a step that calls generate_tts for file_key
Attempt == BeginCall \/ DryRunItem

\* a step in which generate_tts returns True for file_key
SuccessStep == (DryRunItem \/ ReturnFromCall) /\ success_count' = success_count + 1

\* C1: the journal on disk never holds a key in both completed and failed, and
\* neither does main's journal when a run (of any mode, after any earlier
\* runs) has ended.
C1_JournalDisjoint ==
    /\ disk # NoFile => Disjoint(disk)
    /\ pc = "done" => Disjoint(progress)

\* a second run, in retry mode, has ended with keys in both lists
C1_Witness ==
    /\ pc = "done" /\ runs = 2 /\ args.retry_failed /\ ~args.dry_run
    /\ success_count > 0
    /\ progress.completed # <<>> /\ progress.failed # <<>>
    /\ disk = progress

\* C2: in retry-failed mode every call of generate_tts is for a key that is in
\* failed and not in completed.
C2_RetryAttemptsOnlyFailed ==
    [][ (Attempt /\ args.retry_failed)
          => (Contains(progress.failed, file_key)
              /\ ~Contains(progress.completed, file_key)) ]_vars

\* a retry-failed run has called the remote service for a failed key, while
\* another key is completed
C2_Witness ==
    /\ args.retry_failed /\ pc = "returned"
    /\ Contains(progress.failed, file_key)
    /\ progress.completed # <<>>

\* C3 as claimed: a normal run never calls generate_tts for a key that is in
\* failed.
C3_NormalRunSkipsFailed ==
    [][ (Attempt /\ ~args.retry_failed) => ~Contains(progress.failed, file_key) ]_vars

\* C3 amended: a normal run never calls generate_tts for a key that is in
\* completed, and it does call it for a key with text that is in failed (and
\* not in completed): such an item is not passed over.
C3_NormalRunRetriesFailed ==
    [][ /\ (Attempt /\ ~args.retry_failed) => ~Contains(progress.completed, file_key)
        /\ ( /\ AtItem /\ ~args.retry_failed /\ HasText
             /\ Contains(progress.failed, file_key) ) => Attempt ]_vars

\* a normal run is calling the remote service for a key recorded as failed
C3_Witness ==
    /\ ~args.retry_failed /\ pc = "post"
    /\ Contains(progress.failed, file_key)

\* C4: a normal run that follows a normal run which ended with fail_count = 0,
\* over the same work set and without --reset, calls generate_tts for no item
\* and sends no request.
C4_SecondRunIdle ==
    idem => /\ pc \notin {"post", "returned"}
            /\ last = NoAttempt
            /\ success_count = 0 /\ fail_count = 0
            /\ posts = NoPosts

\* the repeated run has ended, having passed over completed items, after a
\* first run that really synthesized
C4_Witness ==
    /\ idem /\ pc = "done" /\ ~args.dry_run
    /\ skip_count > 1
    /\ Len(progress.completed) > 1

Failures == Responses \ {"ok"}

\* C5: whatever the failure of the Flash request, the call goes on to exactly
\* one Pro invocation (before any request is sent there); a Pro invocation
\* never starts another invocation; None is returned only from the one Pro
\* invocation.
C5_FallbackOnce ==
    /\ [] ( /\ fallbackCalls <= 1
            /\ use_fallback => fallbackCalls = 1
            /\ (pc = "returned" /\ audio_data = None)
                  => (fallbackCalls = 1 /\ posts.Flash = 1 /\ posts.Pro >= 1) )
    /\ [][ /\ (PostRequest /\ ~use_fallback /\ response' \in Failures)
              => (pc' = "post" /\ use_fallback' /\ fallbackCalls' = 1
                  /\ posts' = [Flash |-> 1, Pro |-> 0])
           /\ (PostRequest /\ use_fallback)
              => (use_fallback' /\ fallbackCalls' = fallbackCalls) ]_vars

\* the call returned None after one failed Flash request and one Pro request
\* whose payload was malformed
C5_Witness ==
    /\ pc = "returned" /\ audio_data = None
    /\ fallbackCalls = 1 /\ posts = [Flash |-> 1, Pro |-> 1]
    /\ response = "malformed"

\* C6 as claimed: a Pro invocation that ends rate-limited has retried twice
\* (three requests), every wait is followed by a retry, the waits being 30
\* and 60.
C6_TwoRetries ==
    /\ (pc = "returned" /\ use_fallback /\ response = "s429")
          => (posts.Pro = 1 + max_retries /\ sleeps = <<30, 60>>)
    /\ (pc = "post" /\ use_fallback) => Len(sleeps) = posts.Pro

NonRateLimitFailures == Failures \ {"s429"}

\* C7: on the Pro tier a failure other than 429 ends the call with None, no
\* request following it, also as the second request after a 429.
C7_FallbackFailureTerminal ==
    (use_fallback /\ posts.Pro >= 1 /\ response \in NonRateLimitFailures)
        => (pc = "returned" /\ audio_data = None)

\* a timeout of the second Pro request, after a 429 and its wait
C7_Witness ==
    /\ pc = "returned" /\ use_fallback /\ audio_data = None
    /\ posts.Pro = 2 /\ sleeps = <<30>>
    /\ response = "timeout"

\* C8: while a run is in its loops (at the start of every item, and during
\* the item's remote call) the journal a restart would load is main's journal.
C8_DiskIsMemory ==
    pc \in {"loop", "post", "returned", "done"} => load_progress(disk) = progress

\* an item is about to be processed after an earlier item of the run failed
\* and another succeeded
C8_Witness ==
    /\ AtItem /\ ~args.dry_run
    /\ success_count > 0 /\ fail_count > 0
    /\ disk = progress

\* C9: from an attempt's outcome on (until the run ends) the journal holds its
\* key in completed and not in failed after a success, in failed and not in
\* completed after a failure.
C9_OutcomeRecorded ==
    last # NoAttempt =>
        /\ last.outcome \in {"saved", "dry_run"}
              => ( /\ Contains(progress.completed, last.key)
                   /\ ~Contains(progress.failed, last.key) )
        /\ last.outcome \in {"no_result", "write_failed"}
              => ( /\ Contains(progress.failed, last.key)
                   /\ ~Contains(progress.completed, last.key) )

\* the audio of the key was received but not written, after a success
C9_Witness ==
    /\ last.outcome = "write_failed" /\ pc = "loop"
    /\ success_count > 0
    /\ Contains(progress.failed, last.key)

\* C10: a key leaves failed only in a --reset start or in a step in which
\* generate_tts returns True for that key, and every such step leaves its key
\* out of failed.
C10_RemovedOnSuccessOnly ==
    [][ /\ \A k \in Range(Journal.failed) :
              ~Contains(Journal'.failed, k)
                 => ((StartRun /\ args'.reset) \/ (SuccessStep /\ k = file_key))
        /\ SuccessStep => ~Contains(Journal'.failed, file_key) ]_vars

\* a retry run synthesized one failed key, which left failed, and the other
\* failed keys stayed
C10_Witness ==
    /\ args.retry_failed /\ last.outcome = "saved"
    /\ ~Contains(progress.failed, last.key)
    /\ progress.failed # <<>>

(* ------------------------------------------------------------- fairness *)
\* a step of a run under way: main is one sequential thread, every request has
\* a timeout and every sleep ends, so a run that can take a step takes it
RunStep ==
    \/ SkipMissingWorldview
    \/ SkipMissingExercise
    \/ SkipNotFailed
    \/ SkipCompleted
    \/ SkipNoText
    \/ DryRunItem
    \/ BeginCall
    \/ PostRequest
    \/ ReturnFromCall
    \/ FinishRun

\* runs that are not abandoned; whether another run is started is left open
FairSpec == Spec /\ WF_vars(RunStep)

\* C11: every run reaches its summary, and at the summary every item that was
\* eligible when the run started has been attempted in the run, whatever the
\* outcomes of the items before it.
C11_BatchNeverAborts ==
    /\ (pc = "loop") ~> (pc = "done")
    /\ [](pc = "done" => todo = {})

\* the run ended after an item failed and a later item was synthesized
C11_Witness ==
    /\ pc = "done" /\ ~args.dry_run
    /\ fail_count > 0
    /\ last.outcome = "saved"
    /\ progress.failed # <<>>

\* C12 as claimed: no step of a --dry-run run changes the journal, in memory
\* or on disk.
C12_DryRunKeepsJournal ==
    [][ (pc = "loop" /\ args.dry_run) => (progress' = progress /\ disk' = disk) ]_vars

\* C13: a --dry-run run, normal or --retry-failed, never enters
\* call_gemini_tts_api, sends no request, and never gets to save_audio_file:
\* the only outcome of its attempts is generate_tts's early return.
C13_DryRunNoRemoteCall ==
    args.dry_run =>
        /\ pc \notin {"post", "returned"}
        /\ posts = NoPosts
        /\ audio_data = None
        /\ last.outcome \in {None, "dry_run"}

\* a --dry-run --retry-failed run has gone through a failed key
C13_Witness ==
    /\ args.dry_run /\ args.retry_failed
    /\ pc = "done"
    /\ last.outcome = "dry_run"

\* the keys of the items of the corpus
ItemKeys == {get_file_key(t[1], t[2], t[3]) : t \in Items}

\* main is at a worldview, exercise or grade for which the corpus has no text
NoTextHere ==
    /\ InLoop
    /\ \/ worldview \notin DOMAIN stories
       \/ InWorldview /\ exercise \notin DOMAIN stories[worldview]
       \/ AtItem /\ ~HasText

\* C14: the step main takes at a worldview, exercise or grade without text
\* leaves the journal (in memory and on disk), the counts of successes and
\* failures and the record of the last attempt as they are and stays in the
\* loops; no key of such an item is ever in completed or failed.
C14_MissingTextUntouched ==
    /\ [] ( /\ Range(Journal.completed) \subseteq ItemKeys
            /\ Range(Journal.failed) \subseteq ItemKeys )
    /\ [][ NoTextHere => ( /\ progress' = progress /\ disk' = disk
                           /\ success_count' = success_count
                           /\ fail_count' = fail_count
                           /\ last' = last
                           /\ pc' = "loop" ) ]_vars

\* main has passed fantasy/lunge_perfect, whose text is empty, after it
\* synthesized other items, and the key is in neither list
C14_Witness ==
    /\ AtItem /\ ~args.dry_run
    /\ file_key = "fantasy/lunge_good"
    /\ success_count > 0
    /\ ~Contains(progress.completed, "fantasy/lunge_perfect")
    /\ ~Contains(progress.failed, "fantasy/lunge_perfect")

\* the run met a fatal startup error: no credential outside --dry-run, or no
\* corpus file
FatalStartup == (~args.api_key /\ ~args.dry_run) \/ ~stories_file

\* C15: a run that meets a fatal startup error ends at once: it loads no
\* journal, sends no request, and its start leaves the journal file as it
\* was, with --reset too (a step that changes runs is the start of a run).
C15_FatalBeforeJournal ==
    /\ [] ( (runs > 0 /\ FatalStartup)
              => ( /\ pc = "fatal"
                   /\ progress = NotLoaded
                   /\ posts = NoPosts
                   /\ last = NoAttempt
                   /\ todo = {} ) )
    /\ [][ (runs' # runs /\ FatalStartup') => disk' = disk ]_vars

\* a run with --reset and no credential ended at startup and the journal of
\* the earlier run is still on disk
C15_Witness ==
    /\ pc = "fatal" /\ args.reset /\ ~args.api_key /\ stories_file
    /\ disk # NoFile
    /\ disk.completed # <<>>

\* the place of x in a declared list
Pos(list, x) == CHOOSE i \in 1..Len(list) : list[i] = x

\* (worldview index, exercise index, grade index) of a triple
Rank(t) == <<Pos(ALL_WORLDVIEWS, t[1]), Pos(MVP_EXERCISES, t[2]), Pos(GRADES, t[3])>>

LexLess(a, b) ==
    \/ a[1] < b[1]
    \/ a[1] = b[1] /\ a[2] < b[2]
    \/ a[1] = b[1] /\ a[2] = b[2] /\ a[3] < b[3]

\* the item a key was made from
TripleOf(key) == CHOOSE t \in Items : get_file_key(t[1], t[2], t[3]) = key

\* C16: every call of generate_tts in a run is for an item that comes, in the
\* order (worldview index, exercise index, grade index) of the declared lists,
\* strictly after the item of the run's previous call; so no key is attempted
\* twice in a run.
C16_AttemptsInOrder ==
    [][ Attempt => ( \/ last = NoAttempt
                     \/ LexLess(Rank(TripleOf(last.key)),
                                Rank(<<worldview, exercise, grade>>)) ) ]_vars

\* the run is calling the service for an item of the third worldview after
\* its attempt of fantasy/lunge_good
C16_Witness ==
    /\ pc = "post"
    /\ worldview = "idol"
    /\ last.key = "fantasy/lunge_good"
    /\ success_count + fail_count > 1

(* ======================================= keys and paths as pure functions *)
OUTPUT_DIR == "public/assets/prerendered/tts"

\* generate_tts, line 320: OUTPUT_DIR / worldview / f"{exercise}_{grade}.wav"
output_path(w, e, g) == OUTPUT_DIR \o "/" \o w \o "/" \o e \o "_" \o g \o ".wav"

\* every work item the declared lists can name (--new-only or not)
DeclaredItems ==
    Range(ALL_WORLDVIEWS) \X (Range(MVP_EXERCISES) \cup Range(NEW_EXERCISES)) \X Range(GRADES)

driverVars == <<runs, pc, args, progress, disk, wi, ei, gi, success_count, fail_count,
                skip_count, use_fallback, retry, response, audio_data, fallbackCalls,
                posts, sleeps, last, idem, todo, stories_file, seen, summary>>

KeyInit ==
    /\ DriverInit
    /\ pg = NoPrompts
    /\ probe \in [a : DeclaredItems, b : DeclaredItems, keys : {<<>>}, paths : {<<>>}]

\* the key and the path of both items, as main and generate_tts compute them
ComputeKeys ==
    /\ probe.keys = <<>>
    /\ probe' = [probe EXCEPT
                    !.keys = << get_file_key(probe.a[1], probe.a[2], probe.a[3]),
                                get_file_key(probe.b[1], probe.b[2], probe.b[3]) >>,
                    !.paths = << output_path(probe.a[1], probe.a[2], probe.a[3]),
                                 output_path(probe.b[1], probe.b[2], probe.b[3]) >>]
    /\ UNCHANGED <<driverVars, pg>>

KeyNext == ComputeKeys

KeySpec == KeyInit /\ [][KeyNext]_vars

\* C17: the key and the path are functions of (worldview, exercise, grade)
\* alone, and two distinct declared work items never share a key or a path
C17_KeysInjective ==
    probe.keys # <<>> =>
        /\ probe.keys[1] = get_file_key(probe.a[1], probe.a[2], probe.a[3])
        /\ probe.paths[1] = output_path(probe.a[1], probe.a[2], probe.a[3])
        /\ (probe.a = probe.b) => (probe.keys[1] = probe.keys[2] /\ probe.paths[1] = probe.paths[2])
        /\ (probe.a # probe.b) => (probe.keys[1] # probe.keys[2] /\ probe.paths[1] # probe.paths[2])

\* two items of one worldview whose exercise names both hold the separator
C17_Witness ==
    /\ probe.keys = <<"fantasy/bicep_curl_good", "fantasy/arm_raise_good">>
    /\ probe.paths[1] = "public/assets/prerendered/tts/fantasy/bicep_curl_good.wav"

(* ================================== prompt_generator.py: generate_prompts *)
NumThemes == 2
NumLocations == 2
NumTimes == 2

PREFIX == "360 degree equirectangular panorama, seamless texture, 3D skybox, Ultra-detailed 3D render, volumetric lighting, cinematic atmosphere, 8k resolution, rendered in Unreal Engine 5, wide angle view of"

SUFFIX == "no frame, no border, hdri style. --ar 2:1 --style raw --v 6.0"

worlds_declared == <<
   [ world_name |-> "Fantasy",
     template |->
          << [slot |-> "prefix"],
             [lit |-> " "],
             [slot |-> "location"],
             [lit |-> " in the Kingdom of Asteria. "],
             [slot |-> "time_weather"],
             [lit |-> ". Magical atmosphere with floating golden particles. "],
             [slot |-> "suffix"] >>,
     locations |-> <<
          "an Ancient magic library with floating books",
          "a Crystal training chamber with glowing shards",
          "Floating stone platforms in the sky" >>,
     times |-> <<
          "at warm sunset with purple clouds",
          "under a starry night sky with two moons",
          "in a mysterious foggy morning" >> ],
   [ world_name |-> "Sports",
     template |->
          << [slot |-> "prefix"],
             [lit |-> " "],
             [slot |-> "location"],
             [lit |-> ". "],
             [slot |-> "time_weather"],
             [lit |-> ". High energy atmosphere with golden lighting (#ffd700). View from the center looking out. "],
             [slot |-> "suffix"] >>,
     locations |-> <<
          "a Modern gym interior with high-tech equipment",
          "an Olympic training center with large windows",
          "a Stadium locker room with uniforms" >>,
     times |-> <<
          "during a championship final match night",
          "during a bright afternoon training session",
          "under dramatic stadium floodlights" >> ],
   [ world_name |-> "Idol",
     template |->
          << [slot |-> "prefix"],
             [lit |-> " "],
             [slot |-> "location"],
             [lit |-> ". "],
             [slot |-> "time_weather"],
             [lit |-> ". K-pop style with pink (#ff69b4) and purple lighting. Sparkling and dreamy vibe. "],
             [slot |-> "suffix"] >>,
     locations |-> <<
          "a Dance practice room with full-wall mirrors",
          "a Professional Recording studio booth",
          "a Huge Concert stage with LED screens" >>,
     times |-> <<
          "filled with confetti and excitement",
          "with emotional and soft moody lighting",
          "bursting with bright energetic pop lights" >> ] >>

\* the catalog the model runs on: the first themes of the dict, each with its
\* first locations and its first time phrases
worlds ==
    LET W == Prefix(worlds_declared, NumThemes)
    IN  [i \in 1..Len(W) |-> [W[i] EXCEPT !.locations = Prefix(@, NumLocations),
                                         !.times = Prefix(@, NumTimes)]]

\* str.format that renders the time_weather slot as nothing
RECURSIVE format_DropsTime(_, _)
format_DropsTime(template, fields) ==
    IF template = <<>> THEN ""
    ELSE LET part == Head(template)
         IN  (IF "slot" \in DOMAIN part
              THEN (IF part.slot = "time_weather" THEN "" ELSE fields[part.slot])
              ELSE part.lit)
             \o format_DropsTime(Tail(template), fields)

\* str.format: literal text is copied, every {name} is replaced by its field
RECURSIVE format(_, _)
format(template, fields) ==
    IF template = <<>> THEN ""
    ELSE LET part == Head(template)
         IN  (IF "slot" \in DOMAIN part THEN fields[part.slot] ELSE part.lit)
             \o format(Tail(template), fields)

\* "\n".join(all_prompts)
RECURSIVE join(_, _)
join(sep, list) ==
    IF list = <<>> THEN ""
    ELSE IF Len(list) = 1 THEN list[1]
    ELSE list[1] \o sep \o join(sep, Tail(list))

PromptInit ==
    /\ DriverInit
    /\ probe = NoProbe
    /\ pg = [pc |-> "select", world |-> 1, loc |-> 1, selected_time |-> None,
             all_prompts |-> <<>>, file |-> <<>>]

\* line 227: selected_time = random.choice(data["times"])
SelectTime ==
    /\ pg.pc = "select"
    /\ \E t \in Range(worlds[pg.world].times) :
           pg' = [pg EXCEPT !.pc = "append", !.selected_time = t]
    /\ UNCHANGED <<driverVars, probe>>

\* lines 230-237 and the step of the two for loops
AppendPrompt ==
    /\ pg.pc = "append"
    /\ LET data == worlds[pg.world]
           prompt == format(data.template,
                            [prefix |-> PREFIX, location |-> data.locations[pg.loc],
                             time_weather |-> pg.selected_time, suffix |-> SUFFIX])
           more_locations == pg.loc < Len(data.locations)
           more_worlds == pg.world < Len(worlds)
       IN  pg' = [pg EXCEPT
                    !.all_prompts = Append(@, "[" \o data.world_name \o "] " \o prompt \o "\n"),
                    !.selected_time = None,
                    !.loc = IF more_locations THEN @ + 1 ELSE 1,
                    !.world = IF more_locations THEN @ ELSE IF more_worlds THEN @ + 1 ELSE @,
                    !.pc = IF more_locations \/ more_worlds THEN "select" ELSE "write"]
    /\ UNCHANGED <<driverVars, probe>>

\* lines 240-250: the file is written whole, or open() raises and nothing is
\* written, or write() raises after open() truncated the file
WriteFile ==
    /\ pg.pc = "write"
    /\ \E outcome \in {"written", "open_failed", "write_failed"} :
           pg' = [pg EXCEPT
                    !.pc = IF outcome = "written" THEN "done" ELSE "error",
                    !.file = CASE outcome = "written" -> << join("\n", pg.all_prompts) >>
                               [] outcome = "open_failed" -> @
                               [] outcome = "write_failed" -> << "" >>]
    /\ UNCHANGED <<driverVars, probe>>

PromptNext ==
    \/ SelectTime
    \/ AppendPrompt
    \/ WriteFile

PromptSpec == PromptInit /\ [][PromptNext]_vars

\* the (theme, location) pairs in catalog order
RECURSIVE PairsFrom(_)
PairsFrom(i) ==
    IF i > Len(worlds) THEN <<>>
    ELSE [l \in 1..Len(worlds[i].locations) |-> <<i, l>>] \o PairsFrom(i + 1)

Pairs == PairsFrom(1)

\* substring search and prefix test on strings
Has(s, t) == \E i \in 1..(Len(s) - Len(t) + 1) : SubSeq(s, i, i + Len(t) - 1) = t
StartsWith(s, t) == Len(t) <= Len(s) /\ SubSeq(s, 1, Len(t)) = t

Tag(k) == "[" \o worlds[Pairs[k][1]].world_name \o "] "

\* the block appended for the k-th pair is what the catalog asks for
BlockOk(block, k) ==
    LET data == worlds[Pairs[k][1]]
    IN  /\ StartsWith(block, Tag(k))
        /\ Has(block, PREFIX)
        /\ Has(block, data.locations[Pairs[k][2]])
        /\ Cardinality({t \in Range(data.times) : Has(block, t)}) = 1
        /\ Has(block, SUFFIX)

\* C18: whatever random.choice picks, once the loops are over there is exactly
\* one block per (theme, location) pair, in catalog order, each starting with
\* its theme's tag; and every block, when it is appended behind the blocks
\* already there, holds the prefix, its location, exactly one of its theme's
\* time phrases, and the suffix
C18_OneBlockPerPair ==
    /\ [](pg.pc \in {"write", "done", "error"} =>
            /\ Len(pg.all_prompts) = Len(Pairs)
            /\ \A k \in 1..Len(Pairs) : StartsWith(pg.all_prompts[k], Tag(k)))
    /\ [][ pg.all_prompts' # pg.all_prompts =>
            /\ Len(pg.all_prompts') = Len(pg.all_prompts) + 1
            /\ SubSeq(pg.all_prompts', 1, Len(pg.all_prompts)) = pg.all_prompts
            /\ BlockOk(pg.all_prompts'[Len(pg.all_prompts')], Len(pg.all_prompts')) ]_vars

\* the file is written with the last theme's blocks behind the first theme's
C18_Witness ==
    /\ pg.pc = "done"
    /\ Len(pg.all_prompts) = NumThemes * NumLocations
    /\ Has(pg.all_prompts[1], worlds[1].times[1])
    /\ Has(pg.all_prompts[Len(Pairs)], worlds[NumThemes].times[NumTimes])
    /\ pg.file # <<>>

\* C19: the numbers printed at the end of a run are the number of keys the run
\* attempted with success, the number it attempted without success, the number
\* it passed over because they were completed already, and the length of the
\* completed list
C19_SummaryMatches ==
    pc = "done" =>
        /\ summary.success = Cardinality(seen.ok)
        /\ summary.fail = Cardinality(seen.bad)
        /\ summary.skip = Cardinality(seen.passed)
        /\ summary.total = Len(progress.completed)
        /\ summary.total = Cardinality(Range(Journal.completed))
        /\ seen.ok \cap seen.bad = {}
        /\ seen.passed \cap (seen.ok \cup seen.bad) = {}

\* a run that counted a success, a failure and a skip
C19_Witness ==
    /\ pc = "done"
    /\ ~args.dry_run
    /\ summary.success > 0 /\ summary.fail > 0 /\ summary.skip > 0
    /\ summary.total > summary.success

\* C20: whatever the responses are, the call for one item comes back; it has
\* then sent exactly one request to the Flash tier, and at no time more than
\* one to the Flash tier, more than two to the Pro tier, or more than three
\* in all
C20_BoundedRequests ==
    /\ [](posts.Flash <= 1 /\ posts.Pro <= 2 /\ posts.Flash + posts.Pro <= 3)
    /\ [](pc = "returned" => posts.Flash = 1)
    /\ (pc = "post") ~> (pc = "returned")

\* the call came back after a 429 from the Flash tier and two from the Pro tier
C20_Witness ==
    /\ pc = "returned"
    /\ posts.Flash = 1 /\ posts.Pro = 2
    /\ response = "s429"
    /\ audio_data = None

\* C21: in a run without --dry-run a key enters completed only in the step
\* that follows a call which returned audio (a 200 response with data) and in
\* which the audio file of that key was written; and when the call returned
\* audio but the file was not written, the key is in failed and not in
\* completed
C21_CompletedMeansWritten ==
    [][ ~args'.dry_run =>
          /\ \A k \in Range(Journal'.completed) \ Range(Journal.completed) :
                 /\ pc = "returned"
                 /\ response = "ok" /\ audio_data # None
                 /\ posts.Flash + posts.Pro >= 1
                 /\ last' = [key |-> k, outcome |-> "saved"]
          /\ (pc = "returned" /\ audio_data # None /\ last'.outcome = "write_failed")
                 => ( /\ Contains(Journal'.failed, last'.key)
                      /\ ~Contains(Journal'.completed, last'.key) ) ]_vars

\* the first run, without --dry-run, wrote some files and then failed to
\* write one whose audio it had received
C21_Witness ==
    /\ runs = 1 /\ ~args.dry_run /\ pc = "loop"
    /\ last.outcome = "write_failed"
    /\ Contains(progress.failed, last.key)
    /\ progress.completed # <<>>

NoDuplicates(list) == \A i, j \in 1..Len(list) : list[i] = list[j] => i = j

\* C22: neither list of the journal, in memory or on disk, ever holds a key
\* twice, and no step other than a start with --reset takes a key out of
\* completed
C22_NoDuplicatesCompletedGrows ==
    /\ [](/\ NoDuplicates(Journal.completed) /\ NoDuplicates(Journal.failed)
          /\ disk # NoFile => (NoDuplicates(disk.completed) /\ NoDuplicates(disk.failed)))
    /\ [][ ~(runs' # runs /\ args'.reset)
             => Range(Journal.completed) \subseteq Range(Journal'.completed) ]_vars

\* a retry run attempted a key of failed again, it failed again, and the
\* journal holds completed keys too
C22_Witness ==
    /\ args.retry_failed /\ ~args.dry_run
    /\ last.outcome = "no_result"
    /\ Contains(progress.failed, last.key)
    /\ progress.completed # <<>>

(* ========================================================= repeated runs *)
\* the command lines of runs that are repeated to resume the batch: normal or
\* --retry-failed over the whole work set, with a credential, without
\* --dry-run and without --reset
ResumeArgs ==
    {a \in ArgSpace : /\ ~a.dry_run /\ ~a.reset /\ a.api_key
                      /\ ~a.new_only /\ a.worldview = None /\ a.exercise = None}

\* main up to the loops for one more such run, the corpus file in place; runs
\* counts the runs started up to MaxRuns and stays there
RepeatRun ==
    /\ pc \in {"idle", "done"}
    /\ \E a \in ResumeArgs :
        /\ runs' = IF runs < MaxRuns THEN runs + 1 ELSE runs
        /\ args' = a
        /\ stories_file' = TRUE
        /\ seen' = NoneSeen
        /\ summary' = NoSummary
        /\ wi' = 1 /\ ei' = 1 /\ gi' = 1
        /\ success_count' = 0 /\ fail_count' = 0 /\ skip_count' = 0
        /\ last' = NoAttempt
        /\ idem' = ( /\ pc = "done"
                     /\ ~args.retry_failed
                     /\ fail_count = 0
                     /\ ~a.retry_failed
                     /\ SameWorkSet(args, a) )
        /\ pc' = "loop"
        /\ progress' = load_progress(disk)
        /\ disk' = disk
        /\ todo' = {get_file_key(t[1], t[2], t[3]) :
                       t \in {u \in Items : EligibleItem(u, a, progress')}}
        /\ UNCHANGED <<callVars, probe, pg>>

\* a step of a run that makes real calls
ResumeStep ==
    \/ SkipMissingWorldview
    \/ SkipMissingExercise
    \/ SkipNotFailed
    \/ SkipCompleted
    \/ SkipNoText
    \/ BeginCall
    \/ PostRequest
    \/ ReturnFromCall
    \/ FinishRun

ResumeNext == RepeatRun \/ ResumeStep

\* runs are repeated for ever from the empty journal, and none is abandoned
ResumeSpec ==
    /\ Init
    /\ [][ResumeNext]_vars
    /\ WF_vars(ResumeStep)
    /\ WF_vars(RepeatRun)

\* the keys of the work items that have a text
TextKeys ==
    {get_file_key(t[1], t[2], t[3]) : t \in {u \in Items : EligibleItem(u, NoArgs, EmptyJournal)}}

Done(k) == Contains(Journal.completed, k) /\ ~Contains(Journal.failed, k)

AllDone == \A k \in TextKeys : Done(k)

====
